---- MODULE Spec2Model ----
(***************************************************************************)
(* Model of the well-plate analysis pipeline (processWellPlate and the     *)
(* colour helpers of services/wellPlateProcessor) and of the App that      *)
(* calls it.                                                               *)
(*                                                                         *)
(* Numbers.  The source computes in IEEE doubles; the model computes in    *)
(* fixed point with these scales:                                          *)
(*   linear-light and XYZ values   LinScale  (1 = 1000000)                 *)
(*   the Lab nonlinearity f(t)     FScale    (1 = 40000)                   *)
(*   L*, a*, b*                    LabScale  (1 = 100)                     *)
(*   intensity                     IntensityScale (1 = 1024)               *)
(* cellCount is in cells, rounded down.                                    *)
(* Point coordinates are integers; a well centre is kept as the pair of    *)
(* exact numerators x*(NUM_COLS-1), y*(NUM_ROWS-1).                        *)
(***************************************************************************)
EXTENDS Integers, Sequences, FiniteSets, TLC

NUM_ROWS == 8
NUM_COLS == 6
\* WELL_RADIUS_FACTOR = 0.30, kept as the fraction 3/10
WELL_RADIUS_FACTOR_NUM == 3
WELL_RADIUS_FACTOR_DEN == 10

LinScale == 1000000
FScale == 40000
LabScale == 100
IntensityScale == 1024

(***************************************************************************)
(* Arithmetic helpers: the JavaScript Math functions the pipeline uses,    *)
(* and products that do not fit 32 bits.                                   *)
(***************************************************************************)
Abs(x) == IF x < 0 THEN -x ELSE x
Min(x, y) == IF x < y THEN x ELSE y
Max(x, y) == IF x > y THEN x ELSE y

\* Math.round(n/d), d > 0: the nearest integer, ties towards +infinity
RoundDiv(n, d) == (2 * n + d) \div (2 * d)

\* the upper middle of lo..hi, for the binary searches
Mid(lo, hi) == (lo + hi + 1) \div 2

\* the largest base in which the digits of MulDivQR keep 2 * base * d
\* below 2^31
MulBase(d) ==
  IF d <= 16000 THEN 65536
  ELSE IF d <= 1000000 THEN 1024
  ELSE IF d <= 16000000 THEN 64
  ELSE 2

\* <<q + t \div d, t % d>>: the carry of one digit
DivMod(q, t, d) == <<q + t \div d, t % d>>

\* <<q, r>> with a*b = q*d + r and 0 <= r < d, for a, b >= 0 and d > 0,
\* computed digit by digit of b in the given base without forming a*b; h is
\* the pair for the digits of b above the last
MulDivDigit(h, a, digit, base, d) ==
  DivMod(base * h[1] + digit * (a \div d), base * h[2] + digit * (a % d), d)

RECURSIVE MulDivBase(_, _, _, _)
MulDivBase(a, b, base, d) ==
  IF b = 0 THEN <<0, 0>>
  ELSE MulDivDigit(MulDivBase(a, b \div base, base, d), a, b % base, base, d)

MulDivQR(a, b, d) == MulDivBase(a, b, MulBase(d), d)

\* the quotient of qr rounded to the nearest integer
RoundQR(qr, d) == IF 2 * qr[2] >= d THEN qr[1] + 1 ELSE qr[1]

\* m with the sign of a*b
Signed(m, a, b) == IF (a < 0) = (b < 0) THEN m ELSE 0 - m

\* a*b/d rounded to the nearest integer, for any sign of a and b
MulDiv(a, b, d) == Signed(RoundQR(MulDivQR(Abs(a), Abs(b), d), d), a, b)

(***************************************************************************)
(* rgbToLab, lines 15-46                                                   *)
(***************************************************************************)
\* lines 17-23: channel v in 0..255 -> linear light, tabulated over the
\* whole domain: entry v+1 is ((v/255 + 0.055)/1.055)^2.4, or v/255/12.92
\* when v/255 <= 0.04045, times LinScale
SrgbToLinearTable ==
  <<
     0, 304, 607, 911, 1214, 1518, 1821, 2125,
     2428, 2732, 3035, 3347, 3677, 4025, 4391, 4777,
     5182, 5605, 6049, 6512, 6995, 7499, 8023, 8568,
     9134, 9721, 10330, 10960, 11612, 12286, 12983, 13702,
     14444, 15209, 15996, 16807, 17642, 18500, 19382, 20289,
     21219, 22174, 23153, 24158, 25187, 26241, 27321, 28426,
     29557, 30713, 31896, 33105, 34340, 35601, 36889, 38204,
     39546, 40915, 42311, 43735, 45186, 46665, 48172, 49707,
     51269, 52861, 54480, 56128, 57805, 59511, 61246, 63010,
     64803, 66626, 68478, 70360, 72272, 74214, 76185, 78187,
     80220, 82283, 84376, 86500, 88656, 90842, 93059, 95307,
     97587, 99899, 102242, 104616, 107023, 109462, 111932, 114435,
     116971, 119538, 122139, 124772, 127438, 130136, 132868, 135633,
     138432, 141263, 144128, 147027, 149960, 152926, 155926, 158961,
     162029, 165132, 168269, 171441, 174647, 177888, 181164, 184475,
     187821, 191202, 194618, 198069, 201556, 205079, 208637, 212231,
     215861, 219526, 223228, 226966, 230740, 234551, 238398, 242281,
     246201, 250158, 254152, 258183, 262251, 266356, 270498, 274677,
     278894, 283149, 287441, 291771, 296138, 300544, 304987, 309469,
     313989, 318547, 323143, 327778, 332452, 337164, 341914, 346704,
     351533, 356400, 361307, 366253, 371238, 376262, 381326, 386429,
     391572, 396755, 401978, 407240, 412543, 417885, 423268, 428690,
     434154, 439657, 445201, 450786, 456411, 462077, 467784, 473531,
     479320, 485150, 491021, 496933, 502886, 508881, 514918, 520996,
     527115, 533276, 539479, 545724, 552011, 558340, 564712, 571125,
     577580, 584078, 590619, 597202, 603827, 610496, 617207, 623960,
     630757, 637597, 644480, 651406, 658375, 665387, 672443, 679542,
     686685, 693872, 701102, 708376, 715694, 723055, 730461, 737910,
     745404, 752942, 760525, 768151, 775822, 783538, 791298, 799103,
     806952, 814847, 822786, 830770, 838799, 846873, 854993, 863157,
     871367, 879622, 887923, 896269, 904661, 913099, 921582, 930111,
     938686, 947307, 955973, 964686, 973445, 982251, 991102, 1000000
  >>

SrgbToLinear(v) == SrgbToLinearTable[v + 1]

\* scale^3 / LinScale
CubeFactor(scale) == (scale \div 100) * (scale \div 100) * (scale \div 100)

\* largest k in lo..hi with k^3 <= t * scale^3 / LinScale: Math.pow(t, 1/3)
\* in units of 1/scale
RECURSIVE CbrtSearch(_, _, _, _)
CbrtSearch(t, scale, lo, hi) ==
  IF lo >= hi THEN lo
  ELSE IF Mid(lo, hi) * Mid(lo, hi)
            <= MulDivQR(t, CubeFactor(scale), Mid(lo, hi))[1]
       THEN CbrtSearch(t, scale, Mid(lo, hi), hi)
       ELSE CbrtSearch(t, scale, lo, Mid(lo, hi) - 1)

\* the cube root is found in units of 1/CoarseScale first and then among
\* the FScale \div CoarseScale values of the finer unit above it, which
\* keeps the quotients of the search within 32 bits
CoarseScale == 10000
CbrtRefine(t, k) ==
  CbrtSearch(t, FScale, k * (FScale \div CoarseScale),
             (k + 1) * (FScale \div CoarseScale) - 1)

\* line 35: f(t) = t > 0.008856 ? t^(1/3) : 7.787*t + 16/116
LabF(t) ==
  IF t > 8856 THEN CbrtRefine(t, CbrtSearch(t, CoarseScale, 2000, 10100))
  ELSE MulDiv(t, 7787 * (FScale \div CoarseScale), 100000)
         + RoundDiv(16 * FScale, 116)

\* a row of a 3x3 matrix, its entries in units of 1/10000000, times v
MatrixRow(row, v) ==
  MulDiv(v[1], row[1], 10000000) + MulDiv(v[2], row[2], 10000000)
    + MulDiv(v[3], row[3], 10000000)

\* lines 17-23: the channels over 255, gamma expanded
LinearRgb(rgb) == [i \in 1..3 |-> SrgbToLinear(<<rgb.r, rgb.g, rgb.b>>[i])]

\* lines 26-28
RgbToXyzMatrix ==
  << <<4124564, 3575761, 1804375>>,
     <<2126729, 7151522, 721750>>,
     <<193339, 1191920, 9503041>> >>
RgbToXyz(lin) == [i \in 1..3 |-> MatrixRow(RgbToXyzMatrix[i], lin)]

\* lines 31-33 and 59-61: the white point, in units of 1/100000
WhitePoint == <<95047, 100000, 108883>>

\* lines 31-39: var_X, var_Y, var_Z after f
XyzToF(xyz) == [i \in 1..3 |-> LabF(MulDiv(xyz[i], 100000, WhitePoint[i]))]

\* lines 41-43
FToLab(f) ==
  [l |-> RoundDiv(116 * f[2] - 16 * FScale, FScale \div LabScale),
   a |-> RoundDiv(500 * (f[1] - f[2]), FScale \div LabScale),
   b |-> RoundDiv(200 * (f[2] - f[3]), FScale \div LabScale)]

RgbToLabValue(rgb) == FToLab(XyzToF(RgbToXyz(LinearRgb(rgb))))

(***************************************************************************)
(* labToRgb, lines 52-79                                                   *)
(***************************************************************************)
\* LabFInv with the cube on every t
LabFInvCubeOnly(t) == MulDiv(t * t, t, CubeFactor(FScale))

\* line 57: f_inv(t) = t > 0.206897 ? t^3 : (t - 16/116)/7.787
LabFInv(t) ==
  IF t * (LinScale \div FScale) > 206897 THEN MulDiv(t * t, t, CubeFactor(FScale))
  ELSE MulDiv(t * 116 - 16 * FScale, 100000,
              116 * 7787 * (FScale \div CoarseScale))

\* lines 69 and 76: clamp(Math.round(toSrgb(c) * 255)).  toSrgb is the
\* inverse of the gamma expansion of lines 21-23, so the rounded result is
\* at least v exactly when c >= the expansion of (v - 0.5)/255; entry v of
\* the table is that bound times LinScale, for v in 1..255
SrgbRoundingThreshold ==
  <<
     152, 455, 759, 1062, 1366, 1669, 1973, 2276,
     2580, 2884, 3188, 3509, 3848, 4206, 4582, 4977,
     5391, 5825, 6278, 6751, 7245, 7759, 8293, 8848,
     9425, 10023, 10642, 11283, 11947, 12632, 13340, 14070,
     14823, 15600, 16399, 17222, 18068, 18938, 19832, 20751,
     21693, 22661, 23652, 24669, 25711, 26778, 27870, 28988,
     30132, 31301, 32497, 33719, 34967, 36242, 37544, 38872,
     40227, 41610, 43020, 44457, 45922, 47415, 48936, 50484,
     52062, 53667, 55301, 56963, 58655, 60375, 62124, 63903,
     65711, 67548, 69415, 71312, 73239, 75196, 77183, 79200,
     81247, 83326, 85434, 87574, 89745, 91946, 94179, 96443,
     98739, 101066, 103425, 105816, 108238, 110693, 113180, 115699,
     118250, 120835, 123451, 126101, 128783, 131498, 134247, 137028,
     139843, 142692, 145574, 148489, 151439, 154422, 157439, 160491,
     163576, 166696, 169851, 173040, 176264, 179522, 182815, 186143,
     189507, 192905, 196339, 199808, 203313, 206853, 210429, 214041,
     217689, 221373, 225092, 228848, 232641, 236470, 240335, 244237,
     248175, 252151, 256163, 260212, 264298, 268422, 272583, 276781,
     281017, 285290, 289601, 293950, 298336, 302761, 307223, 311724,
     316263, 320840, 325456, 330110, 334803, 339534, 344304, 349113,
     353961, 358849, 363775, 368740, 373745, 378789, 383873, 388996,
     394159, 399362, 404604, 409886, 415209, 420571, 425974, 431417,
     436900, 442424, 447988, 453593, 459239, 464925, 470653, 476421,
     482230, 488080, 493972, 499905, 505879, 511894, 517951, 524050,
     530191, 536373, 542597, 548863, 555171, 561521, 567913, 574347,
     580824, 587343, 593905, 600509, 607156, 613846, 620578, 627353,
     634172, 641033, 647937, 654885, 661876, 668910, 675987, 683108,
     690273, 697481, 704733, 712029, 719369, 726752, 734180, 741652,
     749168, 756728, 764332, 771981, 779674, 787412, 795195, 803022,
     810894, 818811, 826772, 834779, 842830, 850927, 859069, 867256,
     875489, 883767, 892091, 900460, 908874, 917335, 925841, 934393,
     942990, 951634, 960324, 969060, 977842, 986671, 995545
  >>


RECURSIVE SrgbSearch(_, _, _)
SrgbSearch(c, lo, hi) ==
  IF lo >= hi THEN lo
  ELSE IF SrgbRoundingThreshold[Mid(lo, hi)] <= c
       THEN SrgbSearch(c, Mid(lo, hi), hi)
       ELSE SrgbSearch(c, lo, Mid(lo, hi) - 1)

\* Math.round(toSrgb(c) * 255) with the clamp of line 76 left out: a value
\* below 0 or above 255 for c outside [0, 1]
LinearToSrgb8Unclamped(c) ==
  IF c < 0 THEN 0 - 1 ELSE IF c > LinScale THEN 256 ELSE SrgbSearch(c, 0, 255)
LinearToSrgb8(c) == SrgbSearch(c, 0, 255)

\* lines 53-55: var_Y, then var_X and var_Z
LabFy(lab) == RoundDiv((lab.l + 16 * LabScale) * (FScale \div LabScale), 116)
LabToF(lab) ==
  << RoundDiv(lab.a * (FScale \div LabScale), 500) + LabFy(lab),
     LabFy(lab),
     LabFy(lab) - RoundDiv(lab.b * (FScale \div LabScale), 200) >>

\* lines 59-61
FToXyz(f) == [i \in 1..3 |-> MulDiv(LabFInv(f[i]), WhitePoint[i], 100000)]

\* lines 64-66
XyzToRgbMatrix ==
  << <<32404542, 0 - 15371385, 0 - 4985314>>,
     <<0 - 9692660, 18760108, 415560>>,
     <<556434, 0 - 2040259, 10572252>> >>
XyzToRgb(xyz) == [i \in 1..3 |-> MatrixRow(XyzToRgbMatrix[i], xyz)]

\* lines 69-78
Srgb8(lin) == [i \in 1..3 |-> LinearToSrgb8(lin[i])]
SeqToRgb(v) == [r |-> v[1], g |-> v[2], b |-> v[3]]

labToRgb(lab) == SeqToRgb(Srgb8(XyzToRgb(FToXyz(LabToF(lab)))))

(***************************************************************************)
(* Inputs of the model: images, calibration points, canvas behaviour       *)
(***************************************************************************)
\* size of the uploaded images, in pixels
ImgW == 20
ImgH == 30
\* images are numbered 0..MaxPattern; image p has colour
\* Palette[(p*x + (p \div 2)*y) % Len(Palette) + 1] at pixel (x, y), so image
\* 0 is uniform and the others are striped
MaxPattern == 2

Rgb(r, g, b) == [r |-> r, g |-> g, b |-> b]
Pt(x, y) == [x |-> x, y |-> y]

Palette ==
  << Rgb(30, 60, 200), Rgb(100, 70, 190), Rgb(170, 80, 180),
     Rgb(240, 90, 170), Rgb(255, 255, 255), Rgb(10, 10, 10) >>

\* rgbToLab, with its values on the colours of the images computed once
PixelColors == {Palette[i] : i \in 1..Len(Palette)} \cup {Rgb(0, 0, 0)}
PixelLab == [c \in PixelColors |-> RgbToLabValue(c)]
rgbToLab(rgb) == IF rgb \in PixelColors THEN PixelLab[rgb] ELSE RgbToLabValue(rgb)

Images == [w : {ImgW}, h : {ImgH}, pat : 0..MaxPattern]
NoImage == [w |-> 0, h |-> 0, pat |-> 0]

\* the landmark points and the reference points the user can pick
LandmarkPairs ==
  { <<Pt(1, 1), Pt(6, 8)>>, <<Pt(6, 8), Pt(1, 1)>>, <<Pt(1, 1), Pt(1, 1)>>,
    <<Pt(1, 1), Pt(4, 4)>>, <<Pt(1, 1), Pt(26, 36)>> }
ReferencePairs ==
  { <<Pt(2, 2), Pt(3, 7)>>, <<Pt(3, 7), Pt(2, 2)>>, <<Pt(2, 2), Pt(8, 7)>>,
    <<Pt(2, 2), Pt(0 - 5, 0 - 5)>>, <<Pt(0 - 5, 0 - 5), Pt(2, 2)>> }

\* ctx.getImageData throws for some arguments (a coordinate that does not
\* convert to a long, an origin-unclean canvas); the canvas of a run reads
\* the origins with sx <= maxRead, and throws for the others
ReadLimits == {0 - 1000, 1, 1000}

(***************************************************************************)
(* getPixelData, lines 81-99.  x = xNum/xDen, y = yNum/yDen and            *)
(* radius = radNum/radDen are exact fractions.                             *)
(***************************************************************************)
\* the pixel of the canvas at (x, y); getImageData gives transparent black
\* outside the canvas
CanvasPixel(canvas, x, y) ==
  IF x >= 0 /\ x < canvas.w /\ y >= 0 /\ y < canvas.h
  THEN Palette[((canvas.pat * x + (canvas.pat \div 2) * y) % Len(Palette)) + 1]
  ELSE Rgb(0, 0, 0)

\* whether ctx.getImageData(sx, sy, sw, sh) throws (caught at line 95)
GetImageDataThrows(canvas, sx, sy, sw, sh) == sx > canvas.maxRead \/ sw = 0 \/ sh = 0

\* line 82
SampleRadius(radNum, radDen) == Max(1, RoundDiv(radNum, radDen))

\* lines 88-91: whether the pixel at offset (px, py) of the square is kept
InDisc(px, py, radius) ==
  (px - radius) * (px - radius) + (py - radius) * (py - radius) <= radius * radius

\* lines 87-94: the pixels of the square of the given side at (sx, sy), in
\* the order of the image data, that lie in the disc
RECURSIVE DiscPixels(_, _, _, _, _)
DiscPixels(canvas, sx, sy, radius, i) ==
  IF i >= 4 * radius * radius THEN << >>
  ELSE (IF InDisc(i % (2 * radius), i \div (2 * radius), radius)
        THEN << CanvasPixel(canvas, sx + (i % (2 * radius)),
                            sy + (i \div (2 * radius))) >>
        ELSE << >>)
       \o DiscPixels(canvas, sx, sy, radius, i + 1)

\* lines 84-97 for the rounded radius
ReadDisc(canvas, sx, sy, radius) ==
  IF GetImageDataThrows(canvas, sx, sy, 2 * radius, 2 * radius) THEN << >>
  ELSE DiscPixels(canvas, sx, sy, radius, 0)

getPixelData(canvas, xNum, xDen, yNum, yDen, radNum, radDen) ==
  ReadDisc(canvas,
           RoundDiv(xNum - SampleRadius(radNum, radDen) * xDen, xDen),
           RoundDiv(yNum - SampleRadius(radNum, radDen) * yDen, yDen),
           SampleRadius(radNum, radDen))

(***************************************************************************)
(* getRobustAverageColor, lines 105-131                                    *)
(***************************************************************************)
NumLess(a, b) == a < b

\* Median with the upper middle value taken for an even count
MedianUpperMiddle(sorted) == sorted[Len(sorted) \div 2 + 1]

\* lines 122-125
Median(sorted) ==
  IF Len(sorted) % 2 = 0
  THEN RoundDiv(sorted[Len(sorted) \div 2] + sorted[Len(sorted) \div 2 + 1], 2)
  ELSE sorted[Len(sorted) \div 2 + 1]

\* lines 117-119: the three sorted channels of labPixels
SortedChannels(labPixels) ==
  [l |-> SortSeq([i \in 1..Len(labPixels) |-> labPixels[i].l], NumLess),
   a |-> SortSeq([i \in 1..Len(labPixels) |-> labPixels[i].a], NumLess),
   b |-> SortSeq([i \in 1..Len(labPixels) |-> labPixels[i].b], NumLess)]

\* lines 122-128
MedianLabColor(ch) == [c \in {"l", "a", "b"} |-> Median(ch[c])]

getRobustAverageColor(pixels) ==
  IF Len(pixels) = 0 THEN Rgb(0, 0, 0)
  ELSE IF Len(pixels) = 1 THEN pixels[1]
  ELSE labToRgb(MedianLabColor(SortedChannels(
                  [i \in 1..Len(pixels) |-> rgbToLab(pixels[i])])))

(***************************************************************************)
(* processWellPlate, lines 133-226: the pure parts                         *)
(***************************************************************************)
\* lines 154-155: dx = dxNum/(NUM_COLS-1), dy = dyNum/(NUM_ROWS-1)
GridDxNum(a1, h6) == h6.x - a1.x
GridDyNum(a1, h6) == h6.y - a1.y

\* line 156: radius = min(|dx|, |dy|) * WELL_RADIUS_FACTOR = RadiusNum/RadiusDen
RadiusDen == (NUM_COLS - 1) * (NUM_ROWS - 1) * WELL_RADIUS_FACTOR_DEN
RadiusNum(dxNum, dyNum) ==
  Min(Abs(dxNum) * (NUM_ROWS - 1), Abs(dyNum) * (NUM_COLS - 1)) * WELL_RADIUS_FACTOR_NUM

\* lines 183-184: centerX = centerXNum/(NUM_COLS-1), centerY likewise
CenterXNumOneBased(a1, dxNum, c) == a1.x * (NUM_COLS - 1) + (c + 1) * dxNum
CenterXNum(a1, dxNum, c) == a1.x * (NUM_COLS - 1) + c * dxNum
CenterYNum(a1, dyNum, r) == a1.y * (NUM_ROWS - 1) + r * dyNum

\* lines 172-176
LabDiff(p, q) == [l |-> p.l - q.l, a |-> p.a - q.a, b |-> p.b - q.b]
\* line 201
LabDot(u, v) == u.l * v.l + u.a * v.a + u.b * v.b
\* line 177
MagnitudeSquared(v) == LabDot(v, v)

\* line 192: gradientMagSq > 1e-6.  The model's magnitude is an integer in
\* units of 1/LabScale^2, so the bound 1e-6 * LabScale^2 rounds down
EpsilonInverse == 1000000
EpsilonScaled == (LabScale * LabScale) \div EpsilonInverse

\* the values of a JavaScript number that are no finite number
NaN == 0 - 2000000000
Infinity == 1000000000

\* line 203: dotProduct / gradientMagSq, in units of 1/IntensityScale,
\* rounded down; x/0 is NaN for x = 0 and an infinity otherwise
FloorQR(qr, dot) ==
  IF dot >= 0 THEN qr[1]
  ELSE IF qr[2] = 0 THEN 0 - qr[1] ELSE 0 - qr[1] - 1

Quotient(dot, magSq) ==
  IF magSq = 0
  THEN IF dot = 0 THEN NaN ELSE IF dot > 0 THEN Infinity ELSE 0 - Infinity
  ELSE FloorQR(MulDivQR(Abs(dot), IntensityScale, magSq), dot)

\* ClampIntensity with the upper bound missing
ClampIntensityLowerOnly(raw) ==
  IF raw = NaN THEN NaN ELSE Max(0, raw)

\* ClampIntensity with the lower bound missing
ClampIntensityUpperOnly(raw) ==
  IF raw = NaN THEN NaN ELSE Min(IntensityScale, raw)

\* line 204: Math.max(0, Math.min(1, intensity)); both give NaN for NaN
ClampIntensity(raw) ==
  IF raw = NaN THEN NaN ELSE Max(0, Min(IntensityScale, raw))

\* CellCount with the curve replaced by a straight line
CellCountLinear(intensity) ==
  IF intensity = NaN THEN NaN
  ELSE IF Abs(intensity) > 32 * IntensityScale THEN Infinity
  ELSE (intensity * 10000) \div IntensityScale

\* line 208: Math.pow(intensity, 2) * 10000, rounded down; the factor 16 is
\* taken out of 10000 and of IntensityScale^2, and an intensity beyond 32
\* gives a count carried as Infinity
CellCount(intensity) ==
  IF intensity = NaN THEN NaN
  ELSE IF Abs(intensity) > 32 * IntensityScale THEN Infinity
  ELSE MulDivQR(intensity * intensity, 10000 \div 16,
                (IntensityScale * IntensityScale) \div 16)[1]

\* line 212: String.fromCharCode(code) for the codes of A..H
FromCharCode(code) == <<"A", "B", "C", "D", "E", "F", "G", "H">>[code - 64]
\* WellId with the column number not shifted to start at 1
WellIdZeroBased(r, c) == FromCharCode(65 + r) \o ToString(c)
WellId(r, c) == FromCharCode(65 + r) \o ToString(c + 1)

\* lines 183-219: one iteration of the loop body, the WellResult it pushes
\* and whether line 203 ran
WellPixels(canvas, a1, dxNum, dyNum, r, c) ==
  getPixelData(canvas, CenterXNum(a1, dxNum, c), NUM_COLS - 1,
               CenterYNum(a1, dyNum, r), NUM_ROWS - 1,
               RadiusNum(dxNum, dyNum), RadiusDen)

\* Scored with the empty sample recognised by the colour it is given
ScoredByColor(pixels, magSq) ==
  getRobustAverageColor(pixels) # Rgb(0, 0, 0) /\ magSq > EpsilonScaled

\* Scored without the test of the sample size
ScoredEmptySample(pixels, magSq) == magSq > EpsilonScaled
\* Scored with >= in the place of >
ScoredAtEpsilon(pixels, magSq) == Len(pixels) > 0 /\ magSq >= EpsilonScaled

\* line 192
Scored(pixels, magSq) == Len(pixels) > 0 /\ magSq > EpsilonScaled

\* WellIntensity with the well vector of lines 195-199 taken from the well
\* to the origin
WellIntensityReversed(avgColor, lMin, gradient, magSq) ==
  ClampIntensity(Quotient(LabDot(LabDiff(lMin, rgbToLab(avgColor)), gradient),
                          magSq))

\* lines 193-204: the projection of the well's colour on the axis, clamped
WellIntensity(avgColor, lMin, gradient, magSq) ==
  ClampIntensity(Quotient(LabDot(LabDiff(rgbToLab(avgColor), lMin), gradient),
                          magSq))

\* lines 187-190 and 208: the scores of a well; 0 and 0 when line 192 fails
WellScore(scored, intensity) ==
  [intensity |-> IF scored THEN intensity ELSE 0,
   cellCount |-> IF scored THEN CellCount(intensity) ELSE 0]

\* lines 211-219
WellEntry(a1, dxNum, dyNum, r, c, avgColor, score) ==
  [id |-> WellId(r, c), row |-> r, col |-> c,
   center |-> [xNum |-> CenterXNum(a1, dxNum, c),
               yNum |-> CenterYNum(a1, dyNum, r)],
   avgColor |-> avgColor, intensity |-> score.intensity,
   cellCount |-> score.cellCount]

\* lines 186-219 for the colour of the sample
WellOfColor(a1, dxNum, dyNum, lMin, gradient, magSq, r, c, scored, avgColor) ==
  WellEntry(a1, dxNum, dyNum, r, c, avgColor,
            WellScore(scored, WellIntensity(avgColor, lMin, gradient, magSq)))

\* lines 186-219 for the sample
WellOfPixels(a1, dxNum, dyNum, lMin, gradient, magSq, r, c, pixels) ==
  WellOfColor(a1, dxNum, dyNum, lMin, gradient, magSq, r, c,
              Scored(pixels, magSq), getRobustAverageColor(pixels))

WellResult(canvas, a1, dxNum, dyNum, lMin, gradient, magSq, r, c) ==
  WellOfPixels(a1, dxNum, dyNum, lMin, gradient, magSq, r, c,
               WellPixels(canvas, a1, dxNum, dyNum, r, c))

(***************************************************************************)
(* State                                                                   *)
(***************************************************************************)
VARIABLES
  \* App (useState hooks)
  appState, imageFile, imageUrl, results, error,
  a1, h6, minColorPoint, maxColorPoint,
  \* pending timers of handleReset (setTimeout, 100 ms)
  resetTimers,
  \* the invocation of processWellPlate in flight: position, locals, promise
  pc, run, promise,
  \* history of the invocation: steps taken, executions of line 203, calls
  \* of resolve or reject
  trace, divisions, settles,
  \* a call of the colour functions on their own: position, arguments, results
  calc,
  \* a PlateAnalyzer on its own: its state, the mouse, and what it called
  plate

vars == << appState, imageFile, imageUrl, results, error,
           a1, h6, minColorPoint, maxColorPoint, resetTimers,
           pc, run, promise, trace, divisions, settles, calc, plate >>

\* what the handlers of processWellPlate leave alone
appVars == << appState, imageFile, imageUrl, results, error,
              a1, h6, minColorPoint, maxColorPoint, resetTimers, calc, plate >>

\* handleReset is not taken while this many of its timers are pending
MaxPendingTimers == 1

NoCanvas == [w |-> 0, h |-> 0, pat |-> 0, maxRead |-> 0]
NoLab == [l |-> 0, a |-> 0, b |-> 0]

\* the locals of processWellPlate before line 141 has run
NoRun ==
  [a1 |-> Pt(0, 0), h6 |-> Pt(0, 0),
   minColorPoint |-> Pt(0, 0), maxColorPoint |-> Pt(0, 0),
   image |-> NoImage, canvas |-> NoCanvas,
   dxNum |-> 0, dyNum |-> 0, radiusNum |-> 0,
   minColorPixels |-> << >>, maxColorPixels |-> << >>,
   labMin |-> NoLab, gradientVector |-> NoLab, gradientMagSq |-> 0,
   row |-> 0, col |-> 0, results |-> << >>]

NoPromise == [state |-> "none", value |-> << >>]

\* the values processWellPlate rejects with
ContextError == [isError |-> TRUE, message |-> "Could not get canvas context"]
ReferenceError ==
  [isError |-> TRUE,
   message |-> "Could not sample reference colors. Please ensure calibration points are inside wells."]
\* image.onerror passes its event, which is no Error
ImageErrorEvent == [isError |-> FALSE, message |-> ""]
NoError == [isError |-> FALSE, message |-> "none"]

\* the check of line 162 with && in the place of ||
ReferenceSampleErrorBothEmpty(minColorPixels, maxColorPixels) ==
  IF Len(minColorPixels) = 0 /\ Len(maxColorPixels) = 0
  THEN ReferenceError ELSE NoError

\* lines 162-164: the error the two reference samples are rejected with
ReferenceSampleError(minColorPixels, maxColorPixels) ==
  IF Len(minColorPixels) = 0 \/ Len(maxColorPixels) = 0
  THEN ReferenceError ELSE NoError

\* null for a Point, and for selectionRect
NullPoint == [x |-> 0 - 1, y |-> 0 - 1]
NoRect == [startPoint |-> NullPoint, endPoint |-> NullPoint]

\* no PlateAnalyzer is mounted.  version is the component: "click" for
\* components/PlateAnalyzer.tsx, "drag" for the one with rectangle
\* selection.  place and at are where the pointer is; gesture is the state of
\* the mouse button; last is the handler that ran last; stepAtDown, sets,
\* complete and interrupted describe the gesture that began with the last
\* mouse-down on the image; called holds the arguments of onAnalysisComplete
NoPlate ==
  [version |-> "none", mounted |-> FALSE, step |-> "a1",
   a1 |-> NullPoint, h6 |-> NullPoint, minColor |-> NullPoint,
   maxColor |-> NullPoint, crosshair |-> NullPoint,
   isSelecting |-> FALSE, selectionRect |-> NoRect,
   justCompletedSelection |-> FALSE,
   place |-> "outside", at |-> NullPoint, gesture |-> "idle",
   last |-> "none", stepAtDown |-> "a1", sets |-> 0, complete |-> FALSE,
   interrupted |-> FALSE, called |-> << >>]

\* no call of the colour functions on their own
NoCalc ==
  [pc |-> "none", rgb |-> Rgb(0, 0, 0), lab |-> NoLab, back |-> Rgb(0, 0, 0),
   pixels |-> << >>, estimate |-> Rgb(0, 0, 0)]

\* the App after its first render and no run of processWellPlate
InitApp ==
  /\ appState = "uploading"
  /\ imageFile = NoImage
  /\ imageUrl = NoImage
  /\ results = << >>
  /\ error = ""
  /\ a1 = Pt(0, 0)
  /\ h6 = Pt(0, 0)
  /\ minColorPoint = Pt(0, 0)
  /\ maxColorPoint = Pt(0, 0)
  /\ resetTimers = 0
  /\ pc = "idle"
  /\ run = NoRun
  /\ promise = NoPromise
  /\ trace = << >>
  /\ divisions = 0
  /\ settles = 0

Init == InitApp /\ calc = NoCalc /\ plate = NoPlate

(***************************************************************************)
(* App                                                                     *)
(***************************************************************************)
\* handleImageUpload, lines 498-510; the uploader is rendered in state
\* "uploading" only (line 610)
handleImageUpload(file) ==
  /\ pc = "idle"
  /\ appState = "uploading"
  /\ imageFile' = file
  /\ imageUrl' = file
  /\ appState' = "analyzing"
  /\ UNCHANGED << results, error, a1, h6, minColorPoint, maxColorPoint,
                  resetTimers, pc, run, promise, trace, divisions, settles,
                  calc, plate >>

\* handleAnalysisComplete up to its await, lines 512-534, and processWellPlate
\* up to the end of the promise executor, lines 140-143 and 224; the
\* PlateAnalyzer is rendered in state "analyzing" only (line 617)
handleAnalysisComplete(a1Point, h6Point, minColorP, maxColorP) ==
  /\ pc = "idle"
  /\ appState = "analyzing"
  /\ imageUrl # NoImage
  /\ a1' = a1Point
  /\ h6' = h6Point
  /\ minColorPoint' = minColorP
  /\ maxColorPoint' = maxColorP
  /\ appState' = "processing"
  /\ run' = [NoRun EXCEPT !.a1 = a1Point, !.h6 = h6Point,
                          !.minColorPoint = minColorP,
                          !.maxColorPoint = maxColorP,
                          !.image = imageUrl]
  /\ promise' = [state |-> "pending", value |-> << >>]
  /\ pc' = "loading"
  /\ trace' = << "call" >>
  /\ divisions' = 0
  /\ settles' = 0
  /\ UNCHANGED << imageFile, imageUrl, results, error, resetTimers, calc, plate >>

\* the continuation of the await when the promise is fulfilled, lines 535-536
awaitFulfilled ==
  /\ pc \in {"done", "failed"}
  /\ promise.state = "resolved"
  /\ results' = promise.value
  /\ appState' = "results"
  /\ pc' = "idle"
  /\ run' = NoRun
  /\ promise' = NoPromise
  /\ trace' = << >>
  /\ divisions' = 0
  /\ settles' = 0
  /\ UNCHANGED << imageFile, imageUrl, error, a1, h6, minColorPoint,
                  maxColorPoint, resetTimers, calc, plate >>

\* lines 539-542
ErrorMessage(e) ==
  IF e.isError THEN e.message ELSE "Analysis failed. Please try again."

\* a catch block that shows the results view
awaitRejectedAsResults ==
  /\ pc \in {"done", "failed"}
  /\ promise.state = "rejected"
  /\ error' = ErrorMessage(promise.value)
  /\ appState' = "results"
  /\ pc' = "idle"
  /\ run' = NoRun
  /\ promise' = NoPromise
  /\ trace' = << >>
  /\ divisions' = 0
  /\ settles' = 0
  /\ UNCHANGED << imageFile, imageUrl, results, a1, h6, minColorPoint,
                  maxColorPoint, resetTimers, calc, plate >>

\* the catch block, lines 537-545
awaitRejected ==
  /\ pc \in {"done", "failed"}
  /\ promise.state = "rejected"
  /\ error' = ErrorMessage(promise.value)
  /\ appState' = "error"
  /\ pc' = "idle"
  /\ run' = NoRun
  /\ promise' = NoPromise
  /\ trace' = << >>
  /\ divisions' = 0
  /\ settles' = 0
  /\ UNCHANGED << imageFile, imageUrl, results, a1, h6, minColorPoint,
                  maxColorPoint, resetTimers, calc, plate >>

\* handleReset, lines 550-570; its buttons are rendered in the states
\* "analyzing" (onCancel), "results" (onReset) and "error"
handleReset ==
  /\ pc = "idle"
  /\ appState \in {"analyzing", "results", "error"}
  /\ imageUrl # NoImage => resetTimers < MaxPendingTimers
  /\ appState' = "uploading"
  /\ imageFile' = NoImage
  /\ results' = << >>
  /\ error' = ""
  /\ a1' = Pt(0, 0)
  /\ h6' = Pt(0, 0)
  /\ minColorPoint' = Pt(0, 0)
  /\ maxColorPoint' = Pt(0, 0)
  /\ resetTimers' = IF imageUrl # NoImage THEN resetTimers + 1 ELSE resetTimers
  /\ UNCHANGED << imageUrl, pc, run, promise, trace, divisions, settles, calc, plate >>

\* the timer callback of handleReset, lines 565-568
resetTimerFires ==
  /\ pc \in {"idle", "loading"}
  /\ resetTimers > 0
  /\ resetTimers' = resetTimers - 1
  /\ imageUrl' = NoImage
  /\ UNCHANGED << appState, imageFile, results, error, a1, h6, minColorPoint,
                  maxColorPoint, pc, run, promise, trace, divisions, settles,
                  calc, plate >>

(***************************************************************************)
(* processWellPlate, lines 140-225.  The onload handler runs to completion *)
(* (no other handler runs between its steps); pc is its position.          *)
(***************************************************************************)
\* resolve(v) or reject(e): only the first call settles the promise
Settle(state, value) ==
  /\ promise' = IF promise.state = "pending"
                THEN [state |-> state, value |-> value]
                ELSE promise
  /\ settles' = settles + 1

\* reject with a new error in the place of the value given
RejectWrapped(e) ==
  /\ Settle("rejected", [isError |-> TRUE, message |-> "Image could not be processed"])
  /\ pc' = "failed"

\* return reject(e), lines 150 and 163, and reject(err), line 224
Reject(e) ==
  /\ Settle("rejected", e)
  /\ pc' = "failed"

\* image.onerror, line 224
imageOnError ==
  /\ pc = "loading"
  /\ Reject(ImageErrorEvent)
  /\ trace' = Append(trace, "reject")
  /\ UNCHANGED << run, divisions >>
  /\ UNCHANGED appVars

\* image.onload, lines 145-156: the canvas, then dx, dy and radius
imageOnLoad(hasContext, maxRead) ==
  /\ pc = "loading"
  /\ IF ~hasContext
     THEN /\ Reject(ContextError)
          /\ trace' = Append(trace, "reject")
          /\ UNCHANGED run
     ELSE /\ run' = [run EXCEPT
                       !.canvas = [w |-> run.image.w, h |-> run.image.h,
                                   pat |-> run.image.pat, maxRead |-> maxRead],
                       !.dxNum = GridDxNum(run.a1, run.h6),
                       !.dyNum = GridDyNum(run.a1, run.h6),
                       !.radiusNum = RadiusNum(GridDxNum(run.a1, run.h6),
                                               GridDyNum(run.a1, run.h6))]
          /\ pc' = "geometry"
          /\ trace' = Append(trace, "geometry")
          /\ UNCHANGED << promise, settles >>
  /\ UNCHANGED divisions
  /\ UNCHANGED appVars

\* lines 159-160: the sample at a reference point
ReferencePixels(locals, point) ==
  getPixelData(locals.canvas, point.x, 1, point.y, 1, locals.radiusNum, RadiusDen)

\* sampleReferences with the return of line 163 missing: the run goes on
\* after reject
sampleReferencesNoReturn ==
  /\ pc = "geometry"
  /\ run' = [run EXCEPT !.minColorPixels = ReferencePixels(run, run.minColorPoint),
                        !.maxColorPixels = ReferencePixels(run, run.maxColorPoint)]
  /\ IF ReferenceSampleError(run'.minColorPixels, run'.maxColorPixels) # NoError
     THEN /\ Settle("rejected",
                    ReferenceSampleError(run'.minColorPixels, run'.maxColorPixels))
          /\ pc' = "sampled"
          /\ trace' = trace \o << "sampleMin", "sampleMax", "reject" >>
     ELSE /\ pc' = "sampled"
          /\ trace' = trace \o << "sampleMin", "sampleMax" >>
          /\ UNCHANGED << promise, settles >>
  /\ UNCHANGED divisions
  /\ UNCHANGED appVars

\* lines 159-164: both reference samples, then the emptiness check
sampleReferences ==
  /\ pc = "geometry"
  /\ run' = [run EXCEPT !.minColorPixels = ReferencePixels(run, run.minColorPoint),
                        !.maxColorPixels = ReferencePixels(run, run.maxColorPoint)]
  /\ IF ReferenceSampleError(run'.minColorPixels, run'.maxColorPixels) # NoError
     THEN /\ Reject(ReferenceSampleError(run'.minColorPixels, run'.maxColorPixels))
          /\ trace' = trace \o << "sampleMin", "sampleMax", "reject" >>
     ELSE /\ pc' = "sampled"
          /\ trace' = trace \o << "sampleMin", "sampleMax" >>
          /\ UNCHANGED << promise, settles >>
  /\ UNCHANGED divisions
  /\ UNCHANGED appVars

\* ReferenceLab from the first pixel of the sample, not from its robust colour
ReferenceLabOfFirstPixel(pixels) == rgbToLab(pixels[1])

\* lines 166-170: the Lab colour of a reference sample
ReferenceLab(pixels) == rgbToLab(getRobustAverageColor(pixels))

\* lines 172-179: the locals with the gradient and the empty results
WithGradient(locals, labMin, gradientVector) ==
  [locals EXCEPT !.labMin = labMin,
                 !.gradientVector = gradientVector,
                 !.gradientMagSq = MagnitudeSquared(gradientVector),
                 !.row = 0, !.col = 0, !.results = << >>]
AxisOf(locals, labMin, labMax) ==
  WithGradient(locals, labMin, LabDiff(labMax, labMin))

\* lines 166-179: the reference colours, the gradient and the empty results
buildAxis ==
  /\ pc = "sampled"
  /\ run' = AxisOf(run, ReferenceLab(run.minColorPixels),
                   ReferenceLab(run.maxColorPixels))
  /\ pc' = "scoring"
  /\ trace' = Append(trace, "axis")
  /\ UNCHANGED << promise, divisions, settles >>
  /\ UNCHANGED appVars

\* scoreWell with the loops of lines 181-182 exchanged: the rows inside
scoreWellColumnMajor ==
  /\ pc = "scoring"
  /\ run.row < NUM_ROWS /\ run.col < NUM_COLS
  /\ run' = [run EXCEPT
               !.results = Append(run.results,
                                  WellResult(run.canvas, run.a1, run.dxNum,
                                             run.dyNum, run.labMin,
                                             run.gradientVector,
                                             run.gradientMagSq, run.row, run.col)),
               !.row = IF run.row + 1 < NUM_ROWS THEN run.row + 1 ELSE 0,
               !.col = IF run.row + 1 < NUM_ROWS THEN run.col ELSE run.col + 1]
  /\ divisions' = divisions
  /\ trace' = Append(trace, WellId(run.row, run.col))
  /\ UNCHANGED << pc, promise, settles >>
  /\ UNCHANGED appVars

\* scoreWell with a getPixelData that clears the raster it has read
scoreWellErasing ==
  /\ pc = "scoring"
  /\ run.row < NUM_ROWS
  /\ run' = [run EXCEPT
               !.results = Append(run.results,
                                  WellResult(run.canvas, run.a1, run.dxNum,
                                             run.dyNum, run.labMin,
                                             run.gradientVector,
                                             run.gradientMagSq, run.row, run.col)),
               !.canvas = [run.canvas EXCEPT !.pat = 0],
               !.col = IF run.col + 1 < NUM_COLS THEN run.col + 1 ELSE 0,
               !.row = IF run.col + 1 < NUM_COLS THEN run.row ELSE run.row + 1]
  /\ divisions' = divisions
  /\ trace' = Append(trace, WellId(run.row, run.col))
  /\ UNCHANGED << pc, promise, settles >>
  /\ UNCHANGED appVars

\* lines 181-221: one iteration of the inner loop
scoreWell ==
  /\ pc = "scoring"
  /\ run.row < NUM_ROWS
  /\ run' = [run EXCEPT
               !.results = Append(run.results,
                                  WellResult(run.canvas, run.a1, run.dxNum,
                                             run.dyNum, run.labMin,
                                             run.gradientVector,
                                             run.gradientMagSq, run.row, run.col)),
               !.col = IF run.col + 1 < NUM_COLS THEN run.col + 1 ELSE 0,
               !.row = IF run.col + 1 < NUM_COLS THEN run.row ELSE run.row + 1]
  /\ divisions' = IF Scored(WellPixels(run.canvas, run.a1, run.dxNum, run.dyNum,
                                       run.row, run.col), run.gradientMagSq)
                  THEN divisions + 1 ELSE divisions
  /\ trace' = Append(trace, WellId(run.row, run.col))
  /\ UNCHANGED << pc, promise, settles >>
  /\ UNCHANGED appVars

\* line 222
resolveResults ==
  /\ pc = "scoring"
  /\ run.row = NUM_ROWS
  /\ Settle("resolved", run.results)
  /\ pc' = "done"
  /\ trace' = Append(trace, "resolve")
  /\ UNCHANGED << run, divisions >>
  /\ UNCHANGED appVars

Next ==
  \/ \E file \in Images : handleImageUpload(file)
  \/ \E lm \in LandmarkPairs, ref \in ReferencePairs :
       handleAnalysisComplete(lm[1], lm[2], ref[1], ref[2])
  \/ awaitFulfilled
  \/ awaitRejected
  \/ handleReset
  \/ resetTimerFires
  \/ imageOnError
  \/ \E hasContext \in BOOLEAN, maxRead \in ReadLimits :
       imageOnLoad(hasContext, maxRead)
  \/ sampleReferences
  \/ buildAxis
  \/ scoreWell
  \/ resolveResults

Spec == Init /\ [][Next]_vars

\* the rest of the onload handler, lines 159-222: once the load event has
\* been dispatched the handler runs to completion, no other task in between
HandlerStep ==
  \/ sampleReferences
  \/ buildAxis
  \/ scoreWell

\* the guards of the three steps of HandlerStep; each of them extends the
\* trace or the results, so this is ENABLED <<HandlerStep>>_vars
HandlerEnabled ==
  \/ pc = "geometry"
  \/ pc = "sampled"
  \/ pc = "scoring" /\ run.row < NUM_ROWS

\* line 222 and the continuation of the await, lines 535-545: a microtask
\* of the settled promise
SettleStep ==
  \/ resolveResults
  \/ awaitFulfilled
  \/ awaitRejected

\* the handler and the continuation are not starved; for HandlerStep weak
\* fairness is written out, <>[]enabled => []<>step, with its guards for
\* the enabling condition
FairSpec ==
  /\ Spec
  /\ WF_vars(SettleStep)
  /\ ([]<>(~HandlerEnabled) \/ []<><<HandlerStep>>_vars)

(***************************************************************************)
(* The colour functions on their own: rgbToLab followed by labToRgb on a   *)
(* colour, and getRobustAverageColor on a list of pixels.                  *)
(***************************************************************************)
\* the channel values of the colours converted: every LevelStep-th value
\* and the values next to the ends of the range
LevelStep == 17
ChannelLevels == {v \in 0..255 : v % LevelStep = 0} \cup {1, 254, 255}
Colors == [r : ChannelLevels, g : ChannelLevels, b : ChannelLevels]

\* the lists of pixels estimated: up to MaxSampleLen pixels of these colours
MaxSampleLen == 4
SampleColors ==
  {Palette[1], Palette[3], Palette[5], Palette[6], Rgb(0, 0, 0)}
Samples == UNION {[1..n -> SampleColors] : n \in 0..MaxSampleLen}

\* Lab colours given to labToRgb on its own: inside the sRGB gamut, on its
\* border (black, white) and outside of it on each side of each channel
GamutLabs ==
  { [l |-> 0, a |-> 0, b |-> 0], [l |-> 100 * LabScale, a |-> 0, b |-> 0],
    [l |-> 50 * LabScale, a |-> 10 * LabScale, b |-> 0 - 20 * LabScale],
    [l |-> 100 * LabScale, a |-> 75 * LabScale, b |-> 0],
    [l |-> 50 * LabScale, a |-> 0 - 128 * LabScale, b |-> 0],
    [l |-> 40 * LabScale, a |-> 0, b |-> 0 - 128 * LabScale],
    [l |-> 0, a |-> 0, b |-> 127 * LabScale],
    [l |-> 90 * LabScale, a |-> 0 - 60 * LabScale, b |-> 127 * LabScale] }

ColorInit ==
  /\ InitApp
  /\ plate = NoPlate
  /\ \/ \E c \in Colors : calc = [NoCalc EXCEPT !.pc = "color", !.rgb = c]
     \/ \E p \in Samples : calc = [NoCalc EXCEPT !.pc = "sample", !.pixels = p]
     \/ \E lab \in GamutLabs : calc = [NoCalc EXCEPT !.pc = "gamut", !.lab = lab]

\* the frame of a call of a colour function
colorFrame ==
  UNCHANGED << appState, imageFile, imageUrl, results, error, a1, h6,
               minColorPoint, maxColorPoint, resetTimers, pc, run, promise,
               trace, divisions, settles, plate >>

callRgbToLab ==
  /\ calc.pc = "color"
  /\ calc' = [calc EXCEPT !.pc = "lab", !.lab = rgbToLab(calc.rgb)]
  /\ colorFrame

callLabToRgb ==
  /\ calc.pc = "lab"
  /\ calc' = [calc EXCEPT !.pc = "back", !.back = labToRgb(calc.lab)]
  /\ colorFrame

\* labToRgb on a Lab colour that is not the result of rgbToLab
callLabToRgbAlone ==
  /\ calc.pc = "gamut"
  /\ calc' = [calc EXCEPT !.pc = "clamped", !.back = labToRgb(calc.lab)]
  /\ colorFrame

callGetRobustAverageColor ==
  /\ calc.pc = "sample"
  /\ calc' = [calc EXCEPT !.pc = "estimated",
                          !.estimate = getRobustAverageColor(calc.pixels)]
  /\ colorFrame

ColorNext ==
  \/ callRgbToLab
  \/ callLabToRgb
  \/ callLabToRgbAlone
  \/ callGetRobustAverageColor

ColorSpec == ColorInit /\ [][ColorNext]_vars

(***************************************************************************)
(* PlateAnalyzer on its own: components/PlateAnalyzer.tsx (clicks) and the *)
(* version with rectangle selection (clicks and drags).  A handler runs    *)
(* on the state of the last render; the component is rendered after every  *)
(* event.  The browser sends mouseup and then click in one task when the   *)
(* button goes down and up on the image, so no timer runs between them.    *)
(***************************************************************************)
\* the positions of the pointer on the image, in displayed pixels
PlatePoints == {[x |-> 0, y |-> 0], [x |-> 2, y |-> 6]}
\* naturalWidth/offsetWidth and naturalHeight/offsetHeight of the image
DisplayScales == {1, 2}

PlateInit ==
  /\ InitApp
  /\ calc = NoCalc
  /\ \E v \in {"click", "drag"} :
       plate = [NoPlate EXCEPT !.version = v, !.mounted = TRUE]

\* the frame of a handler of the PlateAnalyzer
plateFrame ==
  UNCHANGED << appState, imageFile, imageUrl, results, error, a1, h6,
               minColorPoint, maxColorPoint, resetTimers, pc, run, promise,
               trace, divisions, settles, calc >>

\* one more point set in the gesture in progress
Counted(p) == [p EXCEPT !.sets = IF p.sets < 2 THEN p.sets + 1 ELSE 2]

\* the switch on step of handleClick and handleMouseUp with the setStep
\* calls left out
SetCurrentPointOnly(p, coords) ==
  IF p.step = "a1" THEN Counted([p EXCEPT !.a1 = coords])
  ELSE IF p.step = "h6" THEN Counted([p EXCEPT !.h6 = coords])
  ELSE IF p.step = "minColor" THEN Counted([p EXCEPT !.minColor = coords])
  ELSE IF p.step = "maxColor" THEN Counted([p EXCEPT !.maxColor = coords])
  ELSE p

\* the switch on step of handleClick and handleMouseUp: the point of the
\* step is set and the step advances; no case for "done"
SetCurrentPoint(p, coords) ==
  IF p.step = "a1" THEN Counted([p EXCEPT !.a1 = coords, !.step = "h6"])
  ELSE IF p.step = "h6"
       THEN Counted([p EXCEPT !.h6 = coords, !.step = "minColor"])
  ELSE IF p.step = "minColor"
       THEN Counted([p EXCEPT !.minColor = coords, !.step = "maxColor"])
  ELSE IF p.step = "maxColor"
       THEN Counted([p EXCEPT !.maxColor = coords, !.step = "done"])
  ELSE p

\* getSelectionCenter
getSelectionCenter(selection) ==
  [x |-> (selection.startPoint.x + selection.endPoint.x) \div 2,
   y |-> (selection.startPoint.y + selection.endPoint.y) \div 2]

\* getAbsoluteCoords, for naturalWidth/offsetWidth = naturalHeight/offsetHeight
getAbsoluteCoords(relativePoint, scale) ==
  [x |-> relativePoint.x * scale, y |-> relativePoint.y * scale]

\* handleClick without the test of justCompletedSelection
AfterClickNoFlag(p, coords) ==
  IF p.version = "click" \/ (~p.isSelecting /\ p.selectionRect = NoRect)
  THEN SetCurrentPoint(p, coords)
  ELSE p

\* handleClick of the two components
AfterClick(p, coords) ==
  IF p.version = "click" THEN SetCurrentPoint(p, coords)
  ELSE IF p.justCompletedSelection
       THEN [p EXCEPT !.justCompletedSelection = FALSE]
  ELSE IF ~p.isSelecting /\ p.selectionRect = NoRect
       THEN SetCurrentPoint(p, coords)
  ELSE p

\* handleMouseDown; the click component has no such handler
AfterMouseDown(p, coords) ==
  IF p.version = "drag" /\ p.step # "done"
  THEN [p EXCEPT !.isSelecting = TRUE,
                 !.selectionRect = [startPoint |-> coords, endPoint |-> coords]]
  ELSE p

\* handleMouseMove
AfterMouseMove(p, coords) ==
  IF p.version = "drag" /\ p.isSelecting /\ p.selectionRect # NoRect
  THEN [p EXCEPT !.crosshair = coords, !.selectionRect.endPoint = coords]
  ELSE [p EXCEPT !.crosshair = coords]

\* handleMouseUp; the click component has no such handler
AfterMouseUp(p) ==
  IF p.version = "drag" /\ p.isSelecting /\ p.selectionRect # NoRect
  THEN [SetCurrentPoint(p, getSelectionCenter(p.selectionRect))
          EXCEPT !.justCompletedSelection = TRUE,
                 !.isSelecting = FALSE,
                 !.selectionRect = NoRect]
  ELSE p

\* handleMouseLeave that leaves the selection as it is
AfterMouseLeaveKeeping(p) ==
  IF p.version = "click" THEN [p EXCEPT !.crosshair = NullPoint]
  ELSE [p EXCEPT !.crosshair = NullPoint, !.justCompletedSelection = FALSE]

\* handleMouseLeave of the two components
AfterMouseLeave(p) ==
  IF p.version = "click" THEN [p EXCEPT !.crosshair = NullPoint]
  ELSE IF p.isSelecting
       THEN [p EXCEPT !.crosshair = NullPoint,
                      !.isSelecting = FALSE,
                      !.selectionRect = NoRect,
                      !.justCompletedSelection = FALSE]
  ELSE [p EXCEPT !.crosshair = NullPoint, !.justCompletedSelection = FALSE]

\* handleResetPoints that leaves the point of the last step
AfterResetPointsButLast(p) ==
  [p EXCEPT !.a1 = NullPoint, !.h6 = NullPoint, !.minColor = NullPoint,
            !.step = "a1", !.isSelecting = FALSE, !.selectionRect = NoRect,
            !.justCompletedSelection = FALSE]

\* handleResetPoints of the two components; the one with clicks only has no
\* selection state, which stays at its initial value
AfterResetPoints(p) ==
  [p EXCEPT !.a1 = NullPoint, !.h6 = NullPoint, !.minColor = NullPoint,
            !.maxColor = NullPoint, !.step = "a1", !.isSelecting = FALSE,
            !.selectionRect = NoRect, !.justCompletedSelection = FALSE]

\* the pointer moves to a point of the image: mousemove on the image
handleMouseMove(coords) ==
  /\ plate.mounted
  /\ plate.gesture # "released"
  /\ plate.at # coords
  /\ plate' = [AfterMouseMove(plate, coords)
                 EXCEPT !.place = "image", !.at = coords,
                        !.last = "handleMouseMove"]
  /\ plateFrame

\* the pointer moves off the image and stays in the container, which is as
\* wide as the page: no handler runs
moveToMargin ==
  /\ plate.mounted
  /\ plate.gesture # "released"
  /\ plate.place # "margin"
  /\ plate' = [plate EXCEPT !.place = "margin", !.at = NullPoint]
  /\ plateFrame

\* the pointer leaves the container: mouseleave
handleMouseLeave ==
  /\ plate.mounted
  /\ plate.gesture # "released"
  /\ plate.place # "outside"
  /\ plate' = [AfterMouseLeave(plate)
                 EXCEPT !.place = "outside", !.at = NullPoint,
                        !.last = "handleMouseLeave"]
  /\ plateFrame

\* the button goes down on the image: mousedown
handleMouseDown ==
  /\ plate.mounted
  /\ plate.gesture = "idle"
  /\ plate.place = "image"
  /\ plate' = [AfterMouseDown(plate, plate.at)
                 EXCEPT !.gesture = "down", !.last = "handleMouseDown",
                        !.stepAtDown = plate.step, !.sets = 0,
                        !.complete = FALSE, !.interrupted = FALSE]
  /\ plateFrame

\* the button goes down off the image: no handler runs
pressOffImage ==
  /\ plate.mounted
  /\ plate.gesture = "idle"
  /\ plate.place # "image"
  /\ plate' = [plate EXCEPT !.gesture = "downElsewhere", !.complete = FALSE]
  /\ plateFrame

\* the button goes up on the image: mouseup; the click follows when the
\* button went down on the image too
handleMouseUp ==
  /\ plate.mounted
  /\ plate.gesture \in {"down", "downElsewhere"}
  /\ plate.place = "image"
  /\ plate' = [AfterMouseUp(plate)
                 EXCEPT !.gesture = IF plate.gesture = "down"
                                    THEN "released" ELSE "idle",
                        !.last = "handleMouseUp"]
  /\ plateFrame

\* the button goes up off the image: no handler runs, and the click goes
\* to an ancestor of the image
releaseOffImage ==
  /\ plate.mounted
  /\ plate.gesture \in {"down", "downElsewhere"}
  /\ plate.place # "image"
  /\ plate' = [plate EXCEPT !.gesture = "idle"]
  /\ plateFrame

\* the click that follows mousedown and mouseup on the image
handleClick ==
  /\ plate.mounted
  /\ plate.gesture = "released"
  /\ plate' = [AfterClick(plate, plate.at)
                 EXCEPT !.gesture = "idle", !.last = "handleClick",
                        !.complete = TRUE]
  /\ plateFrame

\* the 300 ms timer of the effect on justCompletedSelection, which is
\* pending exactly while the flag is set
selectionTimerFires ==
  /\ plate.mounted
  /\ plate.version = "drag"
  /\ plate.justCompletedSelection
  /\ plate.gesture # "released"
  /\ plate' = [plate EXCEPT !.justCompletedSelection = FALSE,
                            !.last = "selectionTimer"]
  /\ plateFrame

\* the button Reset Points
handleResetPoints ==
  /\ plate.mounted
  /\ plate.gesture # "released"
  /\ plate' = [AfterResetPoints(plate)
                 EXCEPT !.last = "handleResetPoints",
                        !.interrupted = (plate.gesture = "down")]
  /\ plateFrame

AllSet(p) ==
  p.a1 # NullPoint /\ p.h6 # NullPoint /\ p.minColor # NullPoint
    /\ p.maxColor # NullPoint

\* the button Analyze Plate, enabled in step "done"; the App unmounts the
\* component when onAnalysisComplete is called
handleAnalyze(scale) ==
  /\ plate.mounted
  /\ plate.gesture # "released"
  /\ plate.step = "done"
  /\ plate' = IF AllSet(plate)
              THEN [plate EXCEPT
                      !.called = << getAbsoluteCoords(plate.a1, scale),
                                    getAbsoluteCoords(plate.h6, scale),
                                    getAbsoluteCoords(plate.minColor, scale),
                                    getAbsoluteCoords(plate.maxColor, scale) >>,
                      !.mounted = FALSE, !.last = "handleAnalyze"]
              ELSE [plate EXCEPT !.last = "handleAnalyze"]
  /\ plateFrame

\* the button Cancel: the App unmounts the component
onCancel ==
  /\ plate.mounted
  /\ plate.gesture # "released"
  /\ plate' = [plate EXCEPT !.mounted = FALSE, !.last = "onCancel"]
  /\ plateFrame

PlateNext ==
  \/ \E coords \in PlatePoints : handleMouseMove(coords)
  \/ moveToMargin
  \/ handleMouseLeave
  \/ handleMouseDown
  \/ pressOffImage
  \/ handleMouseUp
  \/ releaseOffImage
  \/ handleClick
  \/ selectionTimerFires
  \/ handleResetPoints
  \/ \E scale \in DisplayScales : handleAnalyze(scale)
  \/ onCancel

PlateSpec == PlateInit /\ [][PlateNext]_vars

(***************************************************************************)
(* Properties                                                              *)
(***************************************************************************)
Range(seq) == {seq[i] : i \in 1..Len(seq)}

RowLetters == << "A", "B", "C", "D", "E", "F", "G", "H" >>
ColumnDigits == << "1", "2", "3", "4", "5", "6" >>
GridCells == (0..7) \X (0..5)

\* the labels scoreWell leaves in the trace
WellSteps == {RowLetters[rc[1] + 1] \o ColumnDigits[rc[2] + 1] : rc \in GridCells}

\* a list is the complete output: 48 entries, the one at index 6*row+col
\* carrying row, col and the id made of the row letter and col+1
RowMajorGrid(list) ==
  /\ Len(list) = 48
  /\ \A rc \in GridCells :
       LET w == list[6 * rc[1] + rc[2] + 1]
       IN  /\ w.row = rc[1]
           /\ w.col = rc[2]
           /\ w.id = RowLetters[rc[1] + 1] \o ColumnDigits[rc[2] + 1]
  /\ \A i \in 1..Len(list), j \in 1..Len(list) :
       list[i].id = list[j].id => i = j

\* C1: whenever processWellPlate succeeds, the list it resolves with (and the
\* list the App stores from it) has exactly 48 entries in row-major order,
\* entry 6*row+col carrying row, col and id = letter 'A'+row followed by
\* col+1, every id A1..H6 exactly once.
C1_OutputShape ==
  /\ promise.state = "resolved" => RowMajorGrid(promise.value)
  /\ appState = "results" => RowMajorGrid(results)

C1_Witness ==
  /\ appState = "results"
  /\ Len(results) = 48
  /\ results[48].id = "H6"

\* C2: a run is all-or-nothing.  resolve or reject is called at most once;
\* the promise is pending exactly while the handler has not finished; a
\* resolved promise carries the complete 48-entry list and a rejected one an
\* error and no list; the results the App stores are the empty list or a
\* complete list; and the step that delivers a rejection to the App leaves
\* its stored results unchanged.
C2_State ==
  /\ settles <= 1
  /\ (promise.state = "pending") = (pc \in {"loading", "geometry", "sampled", "scoring"})
  /\ promise.state = "resolved" =>
       pc = "done" /\ settles = 1 /\ Len(promise.value) = 48
  /\ promise.state = "rejected" =>
       /\ pc = "failed" /\ settles = 1
       /\ promise.value \in {ContextError, ReferenceError, ImageErrorEvent}
  /\ Len(results) \in {0, 48}
  /\ appState = "error" => results = << >>

C2_Step ==
  promise.state = "rejected" /\ promise'.state # "rejected" =>
    /\ results' = results
    /\ appState' = "error"
    /\ error' # ""

C2_AllOrNothing == [](C2_State) /\ [][C2_Step]_vars

C2_Witness ==
  /\ appState = "error"
  /\ error = ReferenceError.message
  /\ results = << >>
  /\ pc = "idle"

\* the samples at the two reference points of the run in flight
MinRefSample ==
  getPixelData(run.canvas, run.minColorPoint.x, 1, run.minColorPoint.y, 1,
               RadiusNum(run.h6.x - run.a1.x, run.h6.y - run.a1.y), RadiusDen)
MaxRefSample ==
  getPixelData(run.canvas, run.maxColorPoint.x, 1, run.maxColorPoint.y, 1,
               RadiusNum(run.h6.x - run.a1.x, run.h6.y - run.a1.y), RadiusDen)
ReferencesSampled == "sampleMax" \in Range(trace)

\* C3: if the sample at minRef or at maxRef has no pixel, then as soon as
\* the two references are sampled the run has failed, the promise is
\* rejected with the reference error, and no axis has been built and no
\* well sampled or scored.
C3_EmptyReferenceFails ==
  ReferencesSampled /\ (Len(MinRefSample) = 0 \/ Len(MaxRefSample) = 0) =>
    /\ pc = "failed"
    /\ promise = [state |-> "rejected", value |-> ReferenceError]
    /\ "axis" \notin Range(trace)
    /\ Range(trace) \cap WellSteps = {}
    /\ run.results = << >>
    /\ run.gradientVector = NoLab /\ run.gradientMagSq = 0
    /\ divisions = 0

\* one reference is empty and the other is not
C3_Witness ==
  /\ pc = "failed"
  /\ ReferencesSampled
  /\ Len(MinRefSample) > 0
  /\ Len(MaxRefSample) = 0

\* C4: a run whose a1 equals h6 fails; it never resolves.
C4_DegenerateGridFails ==
  pc # "idle" /\ run.a1 = run.h6 => promise.state # "resolved"

OutOfBounds(p, canvas) ==
  p.x < 0 \/ p.x >= canvas.w \/ p.y < 0 \/ p.y >= canvas.h

\* C5: a run with minRef or maxRef outside the decoded image has failed with
\* the reference error once the references are sampled.
C5_OutOfBoundsReferenceFails ==
  /\ ReferencesSampled
  /\ \/ OutOfBounds(run.minColorPoint, run.canvas)
     \/ OutOfBounds(run.maxColorPoint, run.canvas)
  => /\ pc = "failed"
     /\ promise = [state |-> "rejected", value |-> ReferenceError]

\* C6: the error of a failed reference sampling tells which reference was
\* empty: every pair of samples the check of line 162 rejects with this same
\* error has its empty samples at the same references as the run's pair.
C6_ErrorNamesReference ==
  pc = "failed" /\ ReferencesSampled =>
    \A m \in {<< >>, << Rgb(0, 0, 0) >>}, n \in {<< >>, << Rgb(0, 0, 0) >>} :
      ReferenceSampleError(m, n) = promise.value =>
        /\ (Len(m) = 0) = (Len(run.minColorPixels) = 0)
        /\ (Len(n) = 0) = (Len(run.maxColorPixels) = 0)

\* the sample of the well (r, c) of the run in flight, at the centre
\* (a1.x + c*(h6.x - a1.x)/5, a1.y + r*(h6.y - a1.y)/7)
WellSample(r, c) ==
  getPixelData(run.canvas, 5 * run.a1.x + c * (run.h6.x - run.a1.x), 5,
               7 * run.a1.y + r * (run.h6.y - run.a1.y), 7,
               RadiusNum(run.h6.x - run.a1.x, run.h6.y - run.a1.y), RadiusDen)

EmptyWells == {i \in 1..Len(run.results) :
                 Len(WellSample(run.results[i].row, run.results[i].col)) = 0}

\* C7: a well with an empty sample gets intensity 0 and cellCount 0 and
\* does not fail the run: a run fails before its first well only, no well
\* is skipped, every well with a non-empty sample is scored against a
\* non-degenerate axis, and the resolved list has 48 entries.
C7_EmptyWellTolerated ==
  /\ \A i \in EmptyWells :
       run.results[i].intensity = 0 /\ run.results[i].cellCount = 0
  /\ pc = "failed" => run.results = << >>
  /\ pc = "scoring" => Len(run.results) = 6 * run.row + run.col
  /\ pc \in {"scoring", "done"} /\ run.gradientMagSq > 0 =>
       divisions = Len(run.results) - Cardinality(EmptyWells)
  /\ promise.state = "resolved" => Len(promise.value) = 48

\* an empty well, and after it a well that is scored above 0
C7_Witness ==
  /\ pc = "done"
  /\ promise.state = "resolved"
  /\ \E i \in EmptyWells : \E j \in (i + 1)..48 : run.results[j].intensity > 0

\* C8: with identical robust colours of the two reference samples (gradient
\* magnitude squared at or below epsilon), every well scored so far, hence
\* each of the 48 wells returned, has intensity 0 and cellCount 0, and
\* line 203 has not run.
C8_DegenerateAxis ==
  /\ pc \in {"scoring", "done"}
  /\ \/ getRobustAverageColor(MinRefSample) = getRobustAverageColor(MaxRefSample)
     \/ run.gradientMagSq <= EpsilonScaled
  => /\ divisions = 0
     /\ \A i \in 1..Len(run.results) :
          run.results[i].intensity = 0 /\ run.results[i].cellCount = 0
     /\ promise.state = "resolved" =>
          \A i \in 1..48 : promise.value[i].intensity = 0 /\ promise.value[i].cellCount = 0

\* identical reference colours sampled at two different points, and a well
\* of another colour
C8_Witness ==
  /\ pc = "done"
  /\ Len(run.results) = 48
  /\ run.minColorPoint # run.maxColorPoint
  /\ getRobustAverageColor(MinRefSample) = getRobustAverageColor(MaxRefSample)
  /\ \E i \in 1..48 :
       /\ i \notin EmptyWells
       /\ run.results[i].avgColor # getRobustAverageColor(MinRefSample)

InRange(w) ==
  /\ 0 <= w.intensity /\ w.intensity <= IntensityScale
  /\ 0 <= w.cellCount /\ w.cellCount <= 10000

\* C9: every WellResult, in the list being built, in the resolved list and
\* in the list the App stores, has 0 <= intensity <= 1 and
\* 0 <= cellCount <= 10000.
C9_Ranges ==
  /\ \A i \in 1..Len(run.results) : InRange(run.results[i])
  /\ promise.state = "resolved" =>
       \A i \in 1..Len(promise.value) : InRange(promise.value[i])
  /\ \A i \in 1..Len(results) : InRange(results[i])

\* the projection of a scored well on the axis, before clamping
RawIntensity(w) ==
  Quotient(LabDot(LabDiff(rgbToLab(w.avgColor), run.labMin), run.gradientVector),
           run.gradientMagSq)

\* a well before the minimum reference and a well beyond the maximum one
C9_Witness ==
  /\ pc = "done"
  /\ run.gradientMagSq > 0
  /\ \E i \in 1..48 : i \notin EmptyWells /\ RawIntensity(run.results[i]) < 0
  /\ \E i \in 1..48 :
       i \notin EmptyWells /\ RawIntensity(run.results[i]) > IntensityScale

\* C10: every WellResult has cellCount = intensity^2 * 10000 (rounded down
\* to a whole cell) with the intensity already clamped to [0, 1]; intensity
\* 0.5 gives 2500, 0 gives 0 and 1 gives 10000; and of two wells the one
\* with the larger intensity has the larger or equal cellCount.
C10_QuadraticCount ==
  \A i \in 1..Len(run.results) :
    LET w == run.results[i]
    IN  /\ 0 <= w.intensity /\ w.intensity <= IntensityScale
        /\ w.cellCount * 65536 <= w.intensity * w.intensity * 625
        /\ w.intensity * w.intensity * 625 < (w.cellCount + 1) * 65536
        /\ w.intensity = 0 => w.cellCount = 0
        /\ 2 * w.intensity = IntensityScale => w.cellCount = 2500
        /\ w.intensity = IntensityScale => w.cellCount = 10000
        /\ \A j \in 1..Len(run.results) :
             w.intensity <= run.results[j].intensity =>
               w.cellCount <= run.results[j].cellCount

\* wells strictly inside the range, with different intensities, and a well
\* at each end
C10_Witness ==
  /\ pc = "done"
  /\ \E i \in 1..48, j \in 1..48 :
       /\ 0 < run.results[i].intensity
       /\ run.results[i].intensity < run.results[j].intensity
       /\ run.results[j].intensity < IntensityScale
  /\ \E i \in 1..48 : run.results[i].intensity = IntensityScale
  /\ \E i \in 1..48 : i \notin EmptyWells /\ run.results[i].intensity = 0

\* the well scored last, its sample, and its projection
\* dot(wellColor - origin, vector) on the axis of the run
LastWell == run.results[Len(run.results)]
LastSample == WellSample(LastWell.row, LastWell.col)
Projection(w) ==
  LabDot(LabDiff(rgbToLab(w.avgColor), run.labMin), run.gradientVector)

\* C11: with a non-degenerate axis and a non-empty sample, a well whose
\* projection is at or beyond the squared magnitude of the axis gets
\* intensity exactly 1 and cellCount exactly 10000, and a well whose
\* projection is zero or negative gets intensity exactly 0 and cellCount
\* exactly 0.
C11_Clamping ==
  /\ pc \in {"scoring", "done"}
  /\ Len(run.results) > 0
  /\ run.gradientMagSq > EpsilonScaled
  /\ Len(LastSample) > 0
  => /\ Projection(LastWell) >= run.gradientMagSq =>
          LastWell.intensity = IntensityScale /\ LastWell.cellCount = 10000
     /\ Projection(LastWell) <= 0 =>
          LastWell.intensity = 0 /\ LastWell.cellCount = 0

\* a run with a well beyond the end of the axis, a well exactly at its end,
\* a well at its origin and a well before it
C11_Witness ==
  /\ pc = "done"
  /\ run.gradientMagSq > EpsilonScaled
  /\ \E i \in 1..48 : i \notin EmptyWells
                        /\ Projection(run.results[i]) > run.gradientMagSq
  /\ \E i \in 1..48 : i \notin EmptyWells
                        /\ Projection(run.results[i]) = run.gradientMagSq
  /\ \E i \in 1..48 : i \notin EmptyWells /\ Projection(run.results[i]) = 0
  /\ \E i \in 1..48 : i \notin EmptyWells /\ Projection(run.results[i]) < 0

\* the projections of the wells of the list, in its order
RECURSIVE Projections(_)
Projections(list) ==
  IF list = << >> THEN << >>
  ELSE << Projection(Head(list)) >> \o Projections(Tail(list))

\* the scores of the wells outside `empty` do not decrease as proj grows
MonotoneScores(list, proj, empty) ==
  \A i \in (1..Len(list)) \ empty, j \in (1..Len(list)) \ empty :
    proj[i] < proj[j] =>
      /\ list[i].intensity <= list[j].intensity
      /\ list[i].cellCount <= list[j].cellCount

\* C12: scoring is monotone along the axis: of any two wells of a run with
\* non-empty samples, the one with the smaller projection
\* dot(color - origin, vector) has the smaller or equal intensity and the
\* smaller or equal cellCount.
C12_Monotone ==
  pc = "done" => MonotoneScores(run.results, Projections(run.results), EmptyWells)

\* some wells of the list, outside `empty`, have projections in increasing
\* order strictly inside the axis and strictly increasing scores
StrictlyOrdered(list, proj, empty, magSq) ==
  \E i \in (1..Len(list)) \ empty, j \in (1..Len(list)) \ empty :
    /\ 0 < proj[i] /\ proj[i] < proj[j] /\ proj[j] < magSq
    /\ list[i].intensity < list[j].intensity
    /\ list[i].cellCount < list[j].cellCount

C12_Witness ==
  /\ pc = "done"
  /\ Len(run.results) = 48
  /\ StrictlyOrdered(run.results, Projections(run.results), EmptyWells,
                     run.gradientMagSq)

\* two colours differ by at most 1 in each channel
WithinOne(c, d) ==
  /\ Abs(c.r - d.r) <= 1
  /\ Abs(c.g - d.g) <= 1
  /\ Abs(c.b - d.b) <= 1

\* C13: for every RGB colour c with integer channels in 0..255,
\* labToRgb(rgbToLab(c)) differs from c by at most 1 in each channel.
C13_RoundTrip ==
  calc.pc = "back" => WithinOne(calc.back, calc.rgb)

\* a dark saturated colour (the linear branches of f and of the gamma
\* curve) converted there and back
C13_Witness ==
  /\ calc.pc = "back"
  /\ calc.rgb = Rgb(1, 17, 254)
  /\ calc.lab # NoLab
  /\ WithinOne(calc.back, calc.rgb)

\* non-empty samples a reference can have
OtherSamples == {<< Rgb(0, 0, 0) >>, << Palette[5], Palette[5] >>}

\* C14: getRobustAverageColor returns black for the empty list and the
\* pixel itself for a one-pixel list; and the callers decide emptiness from
\* the number of pixels, not from the colour returned: the check of the
\* references (line 162) rejects a sample exactly when it has no pixel, and
\* the guard of a well (line 192, with a non-degenerate axis) passes exactly
\* when the sample has a pixel, black or not.
C14_EmptyAndSingle ==
  calc.pc = "estimated" =>
    /\ Len(calc.pixels) = 0 => calc.estimate = Rgb(0, 0, 0)
    /\ Len(calc.pixels) = 1 => calc.estimate = calc.pixels[1]
    /\ \A other \in OtherSamples :
         /\ (ReferenceSampleError(calc.pixels, other) = ReferenceError)
              = (Len(calc.pixels) = 0)
         /\ (ReferenceSampleError(other, calc.pixels) = ReferenceError)
              = (Len(calc.pixels) = 0)
    /\ Scored(calc.pixels, EpsilonScaled + 1) = (Len(calc.pixels) > 0)

\* a non-empty sample estimated as black, the colour of the empty one
C14_Witness ==
  /\ calc.pc = "estimated"
  /\ calc.pixels = << Rgb(0, 0, 0) >>
  /\ calc.estimate = getRobustAverageColor(<< >>)
  /\ Scored(calc.pixels, EpsilonScaled + 1)

\* the values of one Lab channel of the pixels, in the order of the list
RECURSIVE ChannelValues(_, _)
ChannelValues(pixels, ch) ==
  IF pixels = << >> THEN << >>
  ELSE << rgbToLab(Head(pixels))[ch] >> \o ChannelValues(Tail(pixels), ch)

\* the k-th smallest of the values, by counting
KthSmallest(vals, k) ==
  CHOOSE v \in Range(vals) :
    /\ Cardinality({i \in 1..Len(vals) : vals[i] < v}) < k
    /\ Cardinality({i \in 1..Len(vals) : vals[i] <= v}) >= k

\* the middle value for an odd count, the average of the two middle values
\* (to the nearest 1/LabScale) for an even count
MiddleValue(vals) ==
  IF Len(vals) % 2 = 1 THEN KthSmallest(vals, Len(vals) \div 2 + 1)
  ELSE RoundDiv(KthSmallest(vals, Len(vals) \div 2)
                  + KthSmallest(vals, Len(vals) \div 2 + 1), 2)

\* the list with the pixels at i and i + 1 exchanged
SwapAt(pixels, i) ==
  [pixels EXCEPT ![i] = pixels[i + 1], ![i + 1] = pixels[i]]

\* C15: for two or more pixels getRobustAverageColor returns the
\* conversion to RGB of the triple of the medians of the three Lab channels,
\* each taken on its own (the middle value for an odd count, the average of
\* the two middle values for an even count), and the result is the same for
\* the list with any two neighbours exchanged, hence for any order of the
\* pixels.
C15_ChannelMedians ==
  calc.pc = "estimated" /\ Len(calc.pixels) >= 2 =>
    /\ calc.estimate =
         labToRgb([l |-> MiddleValue(ChannelValues(calc.pixels, "l")),
                   a |-> MiddleValue(ChannelValues(calc.pixels, "a")),
                   b |-> MiddleValue(ChannelValues(calc.pixels, "b"))])
    /\ \A i \in 1..(Len(calc.pixels) - 1) :
         getRobustAverageColor(SwapAt(calc.pixels, i)) = calc.estimate

\* four pixels out of order whose two middle L values differ, and whose
\* medians come from different pixels in different channels
C15_Witness ==
  /\ calc.pc = "estimated"
  /\ calc.pixels = << Palette[5], Palette[1], Rgb(0, 0, 0), Palette[3] >>
  /\ KthSmallest(ChannelValues(calc.pixels, "l"), 2)
       # KthSmallest(ChannelValues(calc.pixels, "l"), 3)
  /\ calc.estimate \notin Range(calc.pixels)

\* the number of pixels of the list with the colour c
CountOf(pixels, c) == Cardinality({i \in 1..Len(pixels) : pixels[i] = c})

\* c is the colour of at least half of the pixels and no other colour is
HalfOrMore(pixels, c) ==
  /\ Len(pixels) > 0
  /\ 2 * CountOf(pixels, c) >= Len(pixels)
  /\ \A d \in Range(pixels) \ {c} : 2 * CountOf(pixels, d) < Len(pixels)

\* two colours within 2 units of L*, a* and b* of each other
LabNear(c, d) ==
  /\ Abs(rgbToLab(c).l - rgbToLab(d).l) <= 2 * LabScale
  /\ Abs(rgbToLab(c).a - rgbToLab(d).a) <= 2 * LabScale
  /\ Abs(rgbToLab(c).b - rgbToLab(d).b) <= 2 * LabScale

\* C16: for a sample in which at least half of the pixels, exactly half
\* included, have one colour C and the others are outliers,
\* getRobustAverageColor returns a colour within a small distance of C in
\* each channel.
C16_MajorityColor ==
  calc.pc = "estimated" =>
    \A c \in SampleColors :
      HalfOrMore(calc.pixels, c) => LabNear(calc.estimate, c)

\* the well of row r and column c in the list of a run, which is row-major
WellAt(r, c) == run.results[r * 6 + c + 1]

\* the centre of w is (a1.x + c*(h6.x - a1.x)/5, a1.y + r*(h6.y - a1.y)/7),
\* as an equation between fractions with denominators 5 and 7
OnGrid(w, r, c) ==
  /\ w.row = r /\ w.col = c
  /\ w.center.xNum = 5 * run.a1.x + c * (run.h6.x - run.a1.x)
  /\ w.center.yNum = 7 * run.a1.y + r * (run.h6.y - run.a1.y)

MinStepNum == Min(Abs(run.h6.x - run.a1.x) * 7, Abs(run.h6.y - run.a1.y) * 5)

\* C18: the radius of the disc that getPixelData samples, for the reference
\* points and for the wells, is min(|dx|, |dy|) * k with k between 0.25 and
\* 0.35, and the disc stays below half of the smaller step.
C18_SampledRadius ==
  pc \in {"sampled", "scoring", "done"} =>
    /\ 100 * 35 * SampleRadius(run.radiusNum, RadiusDen) >= 25 * MinStepNum
    /\ 100 * 35 * SampleRadius(run.radiusNum, RadiusDen) <= 35 * MinStepNum
    /\ 2 * 35 * SampleRadius(run.radiusNum, RadiusDen) < MinStepNum

\* the steps of a run that succeeds, in the order of lines 144-222
WellOrder == [i \in 1..48 |-> RowLetters[((i - 1) \div 6) + 1]
                               \o ColumnDigits[((i - 1) % 6) + 1]]
FullRun ==
  << "call", "geometry", "sampleMin", "sampleMax", "axis" >> \o WellOrder
    \o << "resolve" >>

IsPrefix(s, t) == Len(s) <= Len(t) /\ \A i \in 1..Len(s) : s[i] = t[i]

\* the steps taken are those of FullRun up to a point, or those up to the
\* load of the image or up to the second reference followed by reject
StepsInOrder(steps) ==
  \/ IsPrefix(steps, FullRun)
  \/ /\ Len(steps) \in {2, 5}
     /\ steps[Len(steps)] = "reject"
     /\ IsPrefix(SubSeq(steps, 1, Len(steps) - 1), FullRun)

\* the position of the handler agrees with the steps taken
PositionOf(steps) ==
  IF Len(steps) = 0 THEN "idle"
  ELSE IF steps[Len(steps)] = "reject" THEN "failed"
  ELSE IF steps[Len(steps)] = "resolve" THEN "done"
  ELSE IF Len(steps) = 1 THEN "loading"
  ELSE IF Len(steps) = 2 THEN "geometry"
  ELSE IF Len(steps) = 4 THEN "sampled"
  ELSE IF Len(steps) >= 5 THEN "scoring"
  ELSE "none"

C19_State ==
  /\ StepsInOrder(trace)
  /\ pc = PositionOf(trace)
  /\ pc = "scoring" => Len(run.results) = Len(trace) - 5
  /\ pc \in {"loading", "geometry"} =>
       run.minColorPixels = << >> /\ run.maxColorPixels = << >>
  /\ pc \in {"loading", "geometry", "sampled", "failed"} =>
       run.results = << >> /\ run.gradientMagSq = 0
  /\ pc = "loading" => run.dxNum = 0 /\ run.dyNum = 0 /\ run.radiusNum = 0

\* a step that changes the call in flight takes it one or more steps
\* further, and the only step after resolve or reject is the one of the
\* caller that takes the outcome
C19_Step ==
  << pc, run, trace, promise >>' # << pc, run, trace, promise >> =>
    /\ pc # "idle" /\ pc' # "idle" =>
         IsPrefix(trace, trace') /\ Len(trace') > Len(trace)
    /\ pc \in {"done", "failed"} =>
         pc' = "idle" /\ run' = NoRun /\ trace' = << >>

\* C19: one call of processWellPlate goes strictly forward: dx, dy and the
\* radius are derived before either reference is sampled, both references
\* are sampled and the axis built before the first well is scored, the
\* wells are scored in row-major order each exactly once, and after resolve
\* or reject no further step of the call runs.
C19_Sequential == [](C19_State) /\ [][C19_Step]_vars

C19_Witness ==
  /\ pc = "done"
  /\ trace = FullRun
  /\ trace[6] = "A1" /\ trace[7] = "A2" /\ trace[53] = "H6"

\* the entry of index i of the list, computed again from a sample taken
\* from the raster as it is now
Resampled(i) ==
  WellOfPixels(run.a1, run.dxNum, run.dyNum, run.labMin, run.gradientVector,
               run.gradientMagSq, (i - 1) \div 6, (i - 1) % 6,
               WellSample((i - 1) \div 6, (i - 1) % 6))

C20_State ==
  /\ pc \in {"geometry", "sampled", "scoring", "done"} =>
       /\ run.canvas.w = run.image.w /\ run.canvas.h = run.image.h
       /\ run.canvas.pat = run.image.pat
  /\ pc \in {"sampled", "scoring", "done"} =>
       run.minColorPixels = MinRefSample /\ run.maxColorPixels = MaxRefSample
  /\ Len(run.results) > 0 =>
       /\ run.results[1] = Resampled(1)
       /\ run.results[Len(run.results)] = Resampled(Len(run.results))
  /\ pc = "done" => \A i \in 1..Len(run.results) : run.results[i] = Resampled(i)

\* the steps of a run leave the raster as it is and the entries already in
\* the list as they are
C20_Step ==
  pc \in {"geometry", "sampled", "scoring"} =>
    /\ run'.canvas = run.canvas
    /\ IsPrefix(run.results, run'.results)

\* C20: getPixelData only reads.  No step that samples changes the decoded
\* raster, so a sample taken again at any later point of the run, after
\* any number of other samples, has the same pixels (checked for the two
\* references and for the first and the last well at every point, and for
\* all 48 wells at the end), and each of the 48 entries is what its own
\* sample gives whatever was sampled before it.
C20_ReadOnlySampling == [](C20_State) /\ [][C20_Step]_vars

C20_Witness ==
  /\ pc = "done"
  /\ Len(run.results) = 48
  /\ run.canvas.pat = 2
  /\ Len(WellSample(0, 0)) > 0
  /\ run.results[1].avgColor # run.results[2].avgColor
  /\ run.results[1] = Resampled(1)

\* a call of processWellPlate has been made and has not resolved or rejected
InFlight == pc \in {"loading", "geometry", "sampled", "scoring"}

\* C21: while a call of processWellPlate is in flight the App keeps the
\* object URL the call was given: imageUrl is still that URL, so neither
\* the timer of handleReset (lines 565-568) nor the clean-up of the effect
\* on imageUrl (lines 596-604), which revokes the URL that imageUrl held
\* whenever imageUrl changes, has revoked it.
C21_ImageHeldInFlight == InFlight => imageUrl = run.image

\* the call failed at the image: load error or no 2D context
FailedAtImage == pc = "failed" /\ trace = << "call", "reject" >>

C22_State ==
  FailedAtImage =>
    /\ promise.state = "rejected"
    /\ promise.value \in {ImageErrorEvent, ContextError}
    /\ run.results = << >> /\ run.canvas = NoCanvas
    /\ run.minColorPixels = << >> /\ run.maxColorPixels = << >>
    /\ results = << >>
    /\ appState = "processing"

C22_Step ==
  /\ pc = "loading" /\ pc' = "failed" =>
       /\ promise'.value \in {ImageErrorEvent, ContextError}
       /\ run' = run /\ results' = results
  /\ FailedAtImage /\ pc' # pc =>
       /\ appState' = "error"
       /\ results' = << >>
       /\ error' = IF promise.value = ContextError
                    THEN "Could not get canvas context"
                    ELSE "Analysis failed. Please try again."

\* C22: when the image does not load, or the canvas gives no 2D context,
\* processWellPlate rejects with the event of the load error, or with the
\* context error, as it is; no sample is taken and no result produced, and
\* the App goes from processing to error with no results stored.
C22_ImageFailure == [](C22_State) /\ [][C22_Step]_vars

C22_Witness ==
  /\ appState = "error"
  /\ error = "Analysis failed. Please try again."
  /\ results = << >>
  /\ pc = "idle"

\* r, g and b are integers of 0..255
IsRgb8(c) == c.r \in 0..255 /\ c.g \in 0..255 /\ c.b \in 0..255

\* the linear light of a Lab colour, lines 53-66, before toSrgb and clamp
LinearOfLab(lab) == XyzToRgb(FToXyz(LabToF(lab)))

\* C23: every colour that labToRgb or getRobustAverageColor produces, for
\* no pixel, one pixel and several pixels of channels in 0..255 and for
\* Lab colours inside and outside the sRGB gamut, and so every avgColor of
\* a list of wells, has r, g and b integers in 0..255.
C23_ColorsInRange ==
  /\ calc.pc \in {"back", "clamped"} => IsRgb8(calc.back)
  /\ calc.pc = "estimated" => IsRgb8(calc.estimate)
  /\ \A i \in 1..Len(run.results) : IsRgb8(run.results[i].avgColor)
  /\ \A i \in 1..Len(results) : IsRgb8(results[i].avgColor)

\* a Lab colour whose blue is above 1 and whose red is below 0 before the
\* clamp
C23_Witness ==
  /\ calc.pc = "clamped"
  /\ LinearOfLab(calc.lab)[3] > LinScale
  /\ LinearOfLab(calc.lab)[1] < 0
  /\ calc.back.b = 255 /\ calc.back.r = 0

\* the points that are set, in the order of the steps
PointsSet(p) ==
  << p.a1 # NullPoint, p.h6 # NullPoint, p.minColor # NullPoint,
     p.maxColor # NullPoint >>

StepOrder == << "a1", "h6", "minColor", "maxColor", "done" >>
StepIndex(step) == CHOOSE i \in 1..5 : StepOrder[i] = step

C24_State ==
  /\ plate.step \in Range(StepOrder)
  /\ \A i \in 1..4 : PointsSet(plate)[i] = (i < StepIndex(plate.step))
  /\ plate.called # << >> =>
       /\ plate.step = "done"
       /\ \A i \in 1..4 : PointsSet(plate)[i]
       /\ \E scale \in DisplayScales :
            plate.called = << getAbsoluteCoords(plate.a1, scale),
                              getAbsoluteCoords(plate.h6, scale),
                              getAbsoluteCoords(plate.minColor, scale),
                              getAbsoluteCoords(plate.maxColor, scale) >>

C24_Step ==
  /\ plate'.step # plate.step =>
       \/ StepIndex(plate'.step) = StepIndex(plate.step) + 1
       \/ plate'.step = "a1" /\ plate'.last = "handleResetPoints"
  /\ plate'.called # plate.called =>
       plate.step = "done" /\ plate'.last = "handleAnalyze"

\* C24: in both PlateAnalyzer components, after any clicks, drags,
\* mouse-leaves and resets, the points that are set are exactly those of the
\* steps before the current one (none in a1, all four in done); the step
\* changes to the next one of a1, h6, minColor, maxColor, done or, by
\* Reset Points, to a1; and onAnalysisComplete is called in step done only,
\* with the four points.
C24_StepAndPoints == [](C24_State) /\ [][C24_Step]_vars

\* the call was made by the component with drags, with a1 the centre of a
\* dragged rectangle, and the image shown at half of its size
C24_Witness ==
  /\ plate.version = "drag"
  /\ plate.called # << >>
  /\ plate.a1 = [x |-> 1, y |-> 3]
  /\ plate.h6 = [x |-> 2, y |-> 6]
  /\ plate.called[1] = [x |-> 2, y |-> 6]

\* the step is the click that ends a gesture on the image of the component
\* with drags, begun in a step before done
ClickEndsGesture ==
  /\ plate.version = "drag"
  /\ plate.gesture = "released"
  /\ plate'.last = "handleClick" /\ plate'.complete
  /\ plate.stepAtDown # "done"

SamePoints(p, q) ==
  p.step = q.step /\ p.a1 = q.a1 /\ p.h6 = q.h6 /\ p.minColor = q.minColor
    /\ p.maxColor = q.maxColor

C25_Step ==
  ClickEndsGesture =>
    /\ plate'.sets = 1
    /\ ~plate.interrupted =>
         StepIndex(plate'.step) = StepIndex(plate.stepAtDown) + 1
    /\ plate.justCompletedSelection =>
         /\ SamePoints(plate', plate)
         /\ ~plate'.justCompletedSelection

\* between mouseup and click a completed selection has its flag set
C25_State ==
  plate.version = "drag" /\ plate.gesture = "released" /\ plate.sets = 1 =>
    plate.justCompletedSelection

\* C25: in the component with drags, a gesture on the image that begins in
\* a step before done (mouse-down, moves, mouse-up, click) sets exactly one
\* point and takes the step to the next one; the click that follows a
\* completed selection changes no point, whenever the 300 ms timer fired
\* before or during the gesture.
C25_OnePointPerGesture == [](C25_State) /\ [][C25_Step]_vars

\* a drag from (0,0) to (2,6) set a1 to its centre and the click at (2,6)
\* was ignored
C25_Witness ==
  /\ plate.version = "drag"
  /\ plate.last = "handleClick" /\ plate.complete
  /\ plate.stepAtDown = "a1" /\ plate.step = "h6"
  /\ plate.sets = 1
  /\ plate.a1 = [x |-> 1, y |-> 3] /\ plate.at = [x |-> 2, y |-> 6]
  /\ ~plate.justCompletedSelection

\* the step is a mouseleave of the container of the image, in the component
\* with drags
MouseLeaves ==
  /\ plate.version = "drag"
  /\ plate.place # "outside" /\ plate'.place = "outside"
  /\ plate'.last = "handleMouseLeave"

InitialCalibration(p) ==
  /\ p.step = "a1"
  /\ p.a1 = NullPoint /\ p.h6 = NullPoint
  /\ p.minColor = NullPoint /\ p.maxColor = NullPoint
  /\ ~p.isSelecting /\ p.selectionRect = NoRect
  /\ ~p.justCompletedSelection

C27_State ==
  /\ plate.last = "handleResetPoints" => InitialCalibration(plate)
  /\ plate.step = "done" => ~plate.isSelecting /\ plate.selectionRect = NoRect

C27_Step ==
  /\ plate'.last = "handleResetPoints" /\ plate.last # "handleResetPoints" =>
       InitialCalibration(plate')
  /\ plate.step = "done" /\ ~SamePoints(plate', plate) =>
       plate'.last = "handleResetPoints" /\ InitialCalibration(plate')

\* C27: Reset Points, in any state of either PlateAnalyzer, gives the
\* initial calibration state: the four points null, step a1, isSelecting
\* false, selectionRect null, justCompletedSelection false; and in step done
\* no click, drag or other event changes the step or a point, and no
\* selection begins, until Reset Points is pressed.
C27_ResetAndDone == [](C27_State) /\ [][C27_Step]_vars

\* Reset Points was pressed after a whole gesture made in step done
C27_Witness ==
  /\ plate.version = "drag"
  /\ plate.last = "handleResetPoints"
  /\ plate.stepAtDown = "done" /\ plate.complete
  /\ InitialCalibration(plate)

\* the changes of appState the App makes
AppMoves ==
  { << "uploading", "analyzing" >>, << "analyzing", "processing" >>,
    << "analyzing", "uploading" >>, << "processing", "results" >>,
    << "processing", "error" >>, << "results", "uploading" >>,
    << "error", "uploading" >> }

C28_State ==
  /\ appState \in {"uploading", "analyzing", "processing", "results", "error"}
  /\ (appState = "processing") = (pc # "idle")
  /\ appState = "results" => Len(results) = 48 /\ error = ""
  /\ appState = "error" => error # "" /\ results = << >>

C28_Step ==
  appState' # appState =>
    /\ << appState, appState' >> \in AppMoves
    /\ appState' = "results" =>
         /\ promise.state = "resolved" /\ pc = "done"
         /\ results' = promise.value /\ Len(results') = 48
    /\ appState' = "error" =>
         /\ promise.state = "rejected" /\ pc = "failed"
         /\ error' # ""
    /\ appState' = "uploading" /\ appState # "uploading" =>
         results' = << >> /\ error' = ""

\* the load event or the error event of the image has fired
EventFired == appState = "processing" /\ pc \notin {"idle", "loading"}

\* C28: appState changes only along uploading -> analyzing -> processing ->
\* results or error, and by a reset back to uploading; it becomes results
\* only when processWellPlate has resolved, with the resolved list of 48
\* stored, and error only when it has rejected, with a message stored; and
\* once the load or the error event of the image has fired, a processing
\* App reaches results or error.
C28_AppStates ==
  /\ [](C28_State)
  /\ [][C28_Step]_vars
  /\ (EventFired ~> appState \in {"results", "error"})

C28_Witness ==
  /\ appState = "results"
  /\ Len(results) = 48 /\ results[1].id = "A1"
  /\ error = ""
  /\ pc = "idle" /\ promise = NoPromise
  /\ resetTimers = 1

\* the robust colours of the two reference samples of the run in flight
MinRefColor == getRobustAverageColor(run.minColorPixels)
MaxRefColor == getRobustAverageColor(run.maxColorPixels)

\* C29: with a non-degenerate axis, a well whose non-empty sample has the
\* robust colour of the sample at the minimum reference gets intensity 0
\* and cellCount 0, and a well whose non-empty sample has the robust colour
\* of the sample at the maximum reference gets intensity 1 and cellCount
\* 10000.
C29_ReferenceColours ==
  /\ pc \in {"scoring", "done"}
  /\ Len(run.results) > 0
  /\ run.gradientMagSq > EpsilonScaled
  /\ Len(LastSample) > 0
  => /\ LastWell.avgColor = MinRefColor =>
          LastWell.intensity = 0 /\ LastWell.cellCount = 0
     /\ LastWell.avgColor = MaxRefColor =>
          LastWell.intensity = IntensityScale /\ LastWell.cellCount = 10000

\* a finished run with a non-degenerate axis, a well of the colour of the
\* minimum reference and a well of the colour of the maximum reference,
\* where some sample holds pixels of more than one colour
C29_Witness ==
  /\ pc = "done"
  /\ run.gradientMagSq > EpsilonScaled
  /\ \E i \in 1..48 : i \notin EmptyWells /\ run.results[i].avgColor = MinRefColor
  /\ \E i \in 1..48 : i \notin EmptyWells /\ run.results[i].avgColor = MaxRefColor
  /\ \E i \in 1..Len(run.maxColorPixels) :
       run.maxColorPixels[i] # run.maxColorPixels[1]
====
